---- MODULE Spec2Model ----
(***************************************************************************)
(* Presence-triggered dispatch loop with OCR-based delivery verification.  *)
(*                                                                         *)
(*   crowler.py         the orchestration loop (poll, throttle, dispatch)  *)
(*   ocr_engine.py      parse_whisper_info and find_channel_for_code       *)
(*   adb_controlloer.py send_message                                       *)
(*                                                                         *)
(* The specifications share the variables below:                           *)
(*   Spec        the orchestration loop of crowler.py                      *)
(*   SpecParse   parse_whisper_info applied to bounded inputs              *)
(*   SpecVerify  find_channel_for_code, one step per capture/parse/sleep   *)
(*   SpecScrape  check_multiple_status, one step per worker and per result *)
(*   SpecCrop    the crop of find_channel_for_code on bounded frame sizes  *)
(*   SpecSend    send_message, one step per helper call                    *)
(*   SpecPre     isolate_bright_green_text and the binarization, one step  *)
(*               per image operation                                       *)
(***************************************************************************)
EXTENDS Integers, Sequences, FiniteSets, TLC

VARIABLES
    \* ---- crowler.py, __main__ ----
    pc,            \* position of the main loop: "tick", "iter", "crashed"
    clock,         \* the wall clock, time.time()
    now,           \* the value of time.time() read at the top of the tick
    next_check_at, \* time of the next scheduled poll
    statuses,      \* latest known statuses, in dict insertion order
    idx,           \* position in list(statuses.items()) of the current tick
    last_sent,     \* dict account_id -> time of the last dispatch
    last_channel,  \* dict account_id -> last verified channel
    last,          \* the module-level name `last`: <<>> while unbound, else <<t>>
    ticks,         \* number of iterations of while True begun so far
    ev,            \* what the last loop step did (observation record)
    disp,          \* per target: tick time of its latest dispatch since it
                   \* was last observed offline (observation)
    polled_at,     \* <<>>, or <<t>> for the tick time t of the latest poll
                   \* (observation)
    \* ---- ocr_engine.py, parse_whisper_info ----
    p_text, p_code, p_ts, p_out,
    p_parts,       \* how p_text was put together (observation)
    \* ---- ocr_engine.py, find_channel_for_code ----
    vpc,           \* "loop", "capture", "parse", "sleep", "done"
    v_code, v_ts, v_retries,
    attempt,       \* the loop variable of range(1, retries + 1)
    v_raw,         \* raw text recognized in the current attempt
    v_last_raw,    \* the local last_raw
    v_ret,         \* the returned tuple
    v_log,         \* the calls made so far: "capture" (a frame came back),
                   \* "capture_none", "ocr", "sleep" (observation)
    \* ---- crowler.py, check_multiple_status ----
    s_pc,          \* position of the caller: "submit", "collect", "returned",
                   \* "device" (the loop has begun its first send), "idle"
    s_sub,         \* number of urls submitted to the executor so far
    fut,           \* per url: the state of its future and what the worker
                   \* produced
    taken,         \* urls whose future as_completed has yielded
    results,       \* the dict results, in insertion order
    \* ---- ocr_engine.py, find_channel_for_code: the crop ----
    c_h, c_w,      \* height and width of the captured frame
    c_out,         \* <<>>, or <<r>> for the bounds r of the crop and whether
                   \* the full frame is used
    \* ---- adb_controlloer.py, send_message ----
    m_pc,          \* "idle", "tap", "clipboard", "paste", "send", "done"
    m_msg,         \* the message
    m_steps,       \* how the command of each step so far ended (observation)
    m_calls,       \* what each helper called so far returned
    m_ret,         \* <<>>, or <<b>> for the returned boolean b
    \* ---- ocr_engine.py, isolate_bright_green_text and the binarization ----
    f_pc,          \* "idle", "mask", "open", "close", "gray", "clahe",
                   \* "threshold", "done"
    f_frame,       \* the cropped frame: background pixel, patch pixel and the
                   \* rectangle of the patch
    f_mask,        \* the mask, per position
    f_img          \* the single-channel image, per position

loopVars  == <<pc, clock, now, next_check_at, statuses, idx, last_sent,
               last_channel, last, ticks, ev, disp, polled_at>>
parseVars == <<p_text, p_code, p_ts, p_out, p_parts>>
verVars   == <<vpc, v_code, v_ts, v_retries, attempt, v_raw, v_last_raw,
               v_ret, v_log>>
scrapeVars == <<s_pc, s_sub, fut, taken, results>>
cropVars  == <<c_h, c_w, c_out>>
sendVars  == <<m_pc, m_msg, m_steps, m_calls, m_ret>>
preVars   == <<f_pc, f_frame, f_mask, f_img>>
vars      == <<loopVars, parseVars, verVars, scrapeVars, cropVars, sendVars,
               preVars>>

\* Every Python string is a sequence of characters; None is the one-element
\* sequence below, which is no string of the model ("None" is no character).
None == <<"None">>

(***************************************************************************)
(* Text.  A string is a sequence of characters; a character is a           *)
(* one-element TLA+ string, or a token for a character outside ASCII.      *)
(***************************************************************************)
DigitChar == <<"0", "1", "2", "3", "4", "5", "6", "7", "8", "9">>
Digits    == {DigitChar[i] : i \in 1..10}

\* Characters that \s matches.
Whitespace == {" ", "NL"}

\* unicodedata.normalize("NFKC", .) on one character: the full-width forms
\* map to their ASCII counterparts, every other character of the model's
\* alphabet is already normalized.
NFKCChar(c) ==
    CASE c = "FW#" -> "#"
      [] c = "FW<" -> "<"
      [] c = "FW2" -> "2"
      [] OTHER     -> c

RECURSIVE StripWs(_)
StripWs(s) ==
    IF s = <<>> THEN <<>>
    ELSE IF Head(s) \in Whitespace THEN StripWs(Tail(s))
         ELSE <<Head(s)>> \o StripWs(Tail(s))

\* The normalization without its NFKC step.
NormalizeStripOnly(text) == StripWs(text)

\* norm = re.sub(r"\s+", "", text); norm = unicodedata.normalize("NFKC", norm)
Normalize(text) ==
    LET s == StripWs(text) IN [i \in 1..Len(s) |-> NFKCChar(s[i])]

AllDigits(s, from, to) == \A i \in from..to : s[i] \in Digits

\* The widths the pattern fixes: .{5} for the code, \d{8} for the timestamp.
CODE_CHARS == 5
TS_DIGITS  == 8

\* A match of  #(?P<code>.{5}).*?(?P<channel>\d+).<<(?P<ts>\d{8})  in norm,
\* given by the index s of '#', the index c of the first channel digit and
\* the index a of the first '<' of the anchor.
IsMatch(norm, s, c, a) ==
    /\ norm[s] = "#"
    /\ c >= s + CODE_CHARS + 1
    /\ a >= c + 2
    /\ a + 1 + TS_DIGITS <= Len(norm)
    /\ AllDigits(norm, c, a - 2)
    /\ norm[a] = "<"
    /\ norm[a + 1] = "<"
    /\ AllDigits(norm, a + 2, a + 1 + TS_DIGITS)

SetMin(S) == CHOOSE x \in S : \A y \in S : x <= y
SetMax(S) == CHOOSE x \in S : \A y \in S : x >= y

\* re.search: the leftmost start; then the shortest filler (.*? is lazy);
\* then the longest digit run (\d+ is greedy).
Search(norm) ==
    LET n  == Len(norm)
        AA == {a \in 1..n : /\ a + 1 + TS_DIGITS <= n
                            /\ norm[a] = "<"
                            /\ norm[a + 1] = "<"
                            /\ AllDigits(norm, a + 2, a + 1 + TS_DIGITS)}
        CC(s) == {c \in (s + CODE_CHARS + 1)..n : \E a \in AA : IsMatch(norm, s, c, a)}
        SS == {s \in 1..n : norm[s] = "#" /\ CC(s) # {}}
    IN  IF SS = {} THEN [found |-> FALSE]
        ELSE LET s == SetMin(SS)
                 c == SetMin(CC(s))
                 a == SetMax({x \in AA : IsMatch(norm, s, c, x)})
             IN  [found   |-> TRUE,
                  code    |-> SubSeq(norm, s + 1, s + CODE_CHARS),
                  channel |-> SubSeq(norm, c, a - 2),
                  ts      |-> SubSeq(norm, a + 2, a + 1 + TS_DIGITS)]

\* Python truthiness of an optional string.
Truthy(x) == x # None /\ x # <<>>

\* A validation that drops the captured fields on a mismatch.
MismatchNullResult(m, expected_code, expected_ts) ==
    LET parsed_code == <<"#">> \o m.code IN
    IF Truthy(expected_code) /\ parsed_code # expected_code
    THEN <<FALSE, None, None>>
    ELSE IF Truthy(expected_ts) /\ m.ts # expected_ts
         THEN <<FALSE, None, None>>
         ELSE <<TRUE, m.channel, m.ts>>

\* What parse_whisper_info returns once the pattern has matched.
Validate(m, expected_code, expected_ts) ==
    LET parsed_code == <<"#">> \o m.code IN
    IF Truthy(expected_code) /\ parsed_code # expected_code
    THEN <<FALSE, m.channel, m.ts>>
    ELSE IF Truthy(expected_ts) /\ m.ts # expected_ts
         THEN <<FALSE, m.channel, m.ts>>
         ELSE <<TRUE, m.channel, m.ts>>

\* A parser that keeps an empty timestamp field when nothing matched.
ParseNoMatchPartial(text, expected_code, expected_ts) ==
    IF text = <<>> THEN <<FALSE, None, None>>
    ELSE LET m == Search(Normalize(text)) IN
         IF ~m.found THEN <<FALSE, None, <<>>>>
         ELSE Validate(m, expected_code, expected_ts)

parse_whisper_info(text, expected_code, expected_ts) ==
    IF text = <<>> THEN <<FALSE, None, None>>
    ELSE LET m == Search(Normalize(text)) IN
         IF ~m.found THEN <<FALSE, None, None>>
         ELSE Validate(m, expected_code, expected_ts)


(***************************************************************************)
(* find_channel_for_code as a function of what the device shows.  A        *)
(* capture is None (no frame) or a frame, given by the text the            *)
(* recognition engine reads from it.                                       *)
(***************************************************************************)
\* The local last_raw after an attempt that recognized raw: the code never
\* assigns it after its initialisation.
UpdateLastRaw(last_raw, raw) == last_raw

\* The tuple returned when the capture of an attempt gives no frame.
NoFrameResult(last_raw) == <<FALSE, None, <<>>>>

\* A call that treats a lost capture like a missed parse and tries again.
AfterNoFrameRetry == "sleep"

\* Where a capture that gives no frame leaves the call: it returns.
AfterNoFrame == "done"

\* The tuple returned after the for loop.
ExhaustedResult(last_raw) == <<FALSE, None, last_raw>>

RECURSIVE FindFrom(_, _, _, _, _, _)
FindFrom(code, expected_ts, retries, frames, att, last_raw) ==
    IF att > retries THEN ExhaustedResult(last_raw)
    ELSE LET img == frames[att] IN
         IF img = None THEN NoFrameResult(last_raw)
         ELSE LET r == parse_whisper_info(img, code, expected_ts) IN
              IF r[1] THEN <<TRUE, r[2], img>>
              ELSE FindFrom(code, expected_ts, retries, frames, att + 1,
                            UpdateLastRaw(last_raw, img))

find_channel_for_code(code, expected_ts, retries, frames) ==
    FindFrom(code, expected_ts, retries, frames, 1, <<>>)

(***************************************************************************)
(* crowler.py: configuration and collaborators of the main loop.           *)
(***************************************************************************)
CHECK_INTERVAL == 300
SEND_INTERVAL  == 90
RETRIES        == 3

\* The configured profile URLs (two of them; each is one opaque character).
targets == << <<"u1">>, <<"u2">> >>
Urls    == {targets[i] : i \in 1..Len(targets)}

\* The player code a profile page shows: '#' and five characters.
CodeOf(url) ==
    IF url = <<"u1">> THEN <<"#", "A", "B", "C", "D", "E">>
    ELSE <<"#", "F", "G", "H", "I", "J">>

\* Display names a profile page may show.
Names == { <<"A", "n", "n">> }

\* check_target_status: every field is scraped on its own, and stays at its
\* initial value when its element is missing or an exception cut the scrape
\* short; a worker that raised gives the same all-default record.  The first
\* target ranges over every combination; the second over the complete
\* online record and the all-default record.
DefaultRecord == [online |-> FALSE, name |-> None, code |-> None]

ScrapeResults(url) ==
    IF url = targets[1]
    THEN [online : BOOLEAN, name : Names \cup {None}, code : {None, CodeOf(url)}]
    ELSE {DefaultRecord} \cup [online : {TRUE}, name : Names, code : {CodeOf(url)}]

\* check_multiple_status: one item per url, inserted in the order in which
\* the workers complete.
Orders == {o \in [1..Len(targets) -> 1..Len(targets)] :
              \A i, j \in 1..Len(targets) : o[i] = o[j] => i = j}

PollResults ==
    {[i \in 1..Len(targets) |-> [url |-> targets[o[i]], info |-> f[o[i]]]] :
        o \in Orders,
        f \in {g \in [1..Len(targets) -> UNION {ScrapeResults(u) : u \in Urls}] :
                  \A i \in 1..Len(targets) : g[i] \in ScrapeResults(targets[i])}}

\* random.uniform(-5, 5), sampled at its two ends.
Jitter == {0 - 5, 5}

\* time.time() when the loop starts (seconds since the epoch, scaled down),
\* the time one loop iteration can take (work plus time.sleep(1)), and the
\* horizon of the model in seconds and in loop iterations.
StartTime  == 1000
TickSteps  == {30, 300}
MaxElapsed == 640
MaxTicks   == 3

\* datetime.now() at a dispatch: month, day, hour, minute, second.
DateTimes == { <<1, 2, 3, 4, 5>>, <<12, 31, 23, 59, 58>> }

Pad2(n) == <<DigitChar[(n \div 10) + 1], DigitChar[(n % 10) + 1]>>

\* datetime.now().strftime("%m%d%H%M%S")
StrfTime(dt) == Pad2(dt[1]) \o Pad2(dt[2]) \o Pad2(dt[3]) \o Pad2(dt[4]) \o Pad2(dt[5])

\* x or ""
OrEmpty(x) == IF Truthy(x) THEN x ELSE <<>>

\* account_id = code or url
AccountId(url, info) == IF Truthy(info.code) THEN info.code ELSE url

\* dict.get(key, default)
DictGet(d, k, default) == IF k \in DOMAIN d THEN d[k] ELSE default

\* d[k] = v
DictSet(d, k, v) == [x \in DOMAIN d \cup {k} |-> IF x = k THEN v ELSE d[x]]

\* d.pop(k, None)
DictPop(d, k) == [x \in DOMAIN d \ {k} |-> d[x]]

\* last = last_sent.get(account_id, 0.0)
LastSentDefault == 0

\* if now - last >= SEND_INTERVAL
DispatchDue(t, lastT) == t - lastT >= SEND_INTERVAL

\* What the game shows after a whisper went through: the header, the channel
\* in brackets, the anchor and the second message line.
Channels == { <<"4", "2">> }

Rendered(name, code, chan, line2) ==
    name \o code \o <<"[", "CH", ".">> \o chan \o <<"]", "<", "<">> \o line2

Garbage == <<"x", "#", "?", "?">>

\* What the three captures of a verification can give.
FrameScripts(name, code, line2) ==
    LET good == {Rendered(name, code, ch, line2) : ch \in Channels}
    IN  {<<g, g, g>> : g \in good}
        \cup {<<Garbage, g, None>> : g \in good}
        \cup {<<Garbage, Garbage, Garbage>>, <<None, None, None>>,
               <<Garbage, None, None>>}


(***************************************************************************)
(* crowler.py: the main loop.                                              *)
(***************************************************************************)
NoEv == [kind |-> "none", url |-> None, key |-> None, prev |-> "never",
         prevT |-> 0, line2 |-> None, ver |-> None, before |-> <<>>,
         ops |-> <<>>, own |-> <<>>, notify |-> "none"]

Item == statuses[idx]
Info == Item.info

InitParse ==
    /\ p_text = <<>> /\ p_code = None /\ p_ts = None /\ p_out = None
    /\ p_parts = None

InitVerify ==
    /\ vpc = "done" /\ v_code = None /\ v_ts = None /\ v_retries = 0
    /\ attempt = 0 /\ v_raw = None /\ v_last_raw = <<>> /\ v_ret = None
    /\ v_log = <<>>

InitLoop ==
    /\ pc = "tick"
    /\ clock = StartTime
    /\ now = 0
    /\ next_check_at = 0
    /\ statuses = <<>>
    /\ idx = 1
    /\ last_sent = <<>>
    /\ last_channel = <<>>
    /\ last = <<>>
    /\ ticks = 1
    /\ ev = NoEv
    /\ disp = [u \in Urls |-> [ph |-> "never", t |-> 0]]
    /\ polled_at = <<>>

InitScrape ==
    /\ s_pc = "idle" /\ s_sub = 0 /\ taken = {} /\ results = <<>>
    /\ fut = [u \in Urls |-> [st |-> "new", raised |-> FALSE,
                              rec |-> DefaultRecord]]

InitCrop == c_h = 1 /\ c_w = 1 /\ c_out = <<>>

InitSend ==
    /\ m_pc = "idle" /\ m_msg = <<>> /\ m_steps = <<>> /\ m_calls = <<>>
    /\ m_ret = <<>>

InitPre == f_pc = "idle" /\ f_frame = <<>> /\ f_mask = <<>> /\ f_img = <<>>

InitIdle == InitCrop /\ InitSend /\ InitPre

Init == InitLoop /\ InitParse /\ InitVerify /\ InitScrape /\ InitIdle

\* A schedule that leaves the poll period out.
NextCheckAtJitterOnly(t, jitter) == t + jitter

\* next_check_at = now + CHECK_INTERVAL + jitter
NextCheckAt(t, jitter) == t + CHECK_INTERVAL + jitter

\* except Exception: statuses = {}
StatusesAfterFailedPoll(old) == <<>>

\* A poll at every tick, whatever the schedule says.
PollDueAlways(t, scheduled) == TRUE

\* if now >= next_check_at
PollDue(t, scheduled) == t >= scheduled

\* A for loop that stands inside the poll branch: only a tick that polled
\* goes through the statuses.
IterateOnlyAfterPoll(polled, n) == IF polled THEN 1 ELSE n + 1

\* for url, info in list(statuses.items()): the loop stands after the poll
\* branch, so every tick starts it at the first of the n items.
IterateFrom(polled, n) == 1

\* now = time.time(); the poll is due and check_multiple_status returns.
Poll ==
    /\ pc = "tick"
    /\ PollDue(clock, next_check_at)
    /\ \E res \in PollResults, j \in Jitter :
          /\ statuses' = res
          /\ next_check_at' = NextCheckAt(clock, j)
    /\ now' = clock
    /\ pc' = "iter"
    /\ idx' = IterateFrom(TRUE, Len(statuses'))
    /\ ev' = [NoEv EXCEPT !.kind = "poll", !.before = statuses]
    /\ polled_at' = <<clock>>
    /\ UNCHANGED <<clock, last_sent, last_channel, last, ticks, disp,
                   parseVars, verVars, scrapeVars, cropVars, sendVars,
                   preVars>>

\* now = time.time(); the poll is due and check_multiple_status raises.
PollFail ==
    /\ pc = "tick"
    /\ PollDue(clock, next_check_at)
    /\ statuses' = StatusesAfterFailedPoll(statuses)
    /\ \E j \in Jitter : next_check_at' = NextCheckAt(clock, j)
    /\ now' = clock
    /\ pc' = "iter"
    /\ idx' = IterateFrom(TRUE, Len(statuses'))
    /\ ev' = [NoEv EXCEPT !.kind = "pollfail", !.before = statuses]
    /\ polled_at' = <<clock>>
    /\ UNCHANGED <<clock, last_sent, last_channel, last, ticks, disp,
                   parseVars, verVars, scrapeVars, cropVars, sendVars,
                   preVars>>

\* now = time.time(); no poll is due.
NoPoll ==
    /\ pc = "tick"
    /\ ~PollDue(clock, next_check_at)
    /\ now' = clock
    /\ pc' = "iter"
    /\ idx' = IterateFrom(FALSE, Len(statuses))
    /\ ev' = [NoEv EXCEPT !.kind = "tick"]
    /\ UNCHANGED <<clock, next_check_at, statuses, last_sent, last_channel,
                   last, ticks, disp, polled_at, parseVars, verVars,
                   scrapeVars, cropVars, sendVars, preVars>>

\* A record of the send time that a failed verification takes back.
RecordDispatchIfVerified(ls, aid, t, found) ==
    IF found THEN DictSet(ls, aid, t) ELSE ls

\* last_sent[account_id] = now, before the verification; nothing after the
\* verification touches it.
RecordDispatch(ls, aid, t, found) == DictSet(ls, aid, t)

\* cmd_part = f"/w {name}{code}"
CmdPart(name, code) == <<"/", "w", " ">> \o name \o code

\* A dispatch that looks for the confirmation before it has sent anything.
DispatchOpsVerifyFirst(name, code, time_part) ==
    << [op |-> "verify", a |-> code, b |-> time_part],
       [op |-> "send", a |-> CmdPart(name, code), b |-> <<>>],
       [op |-> "send", a |-> time_part, b |-> <<>>],
       [op |-> "record", a |-> <<>>, b |-> <<>>] >>

\* The calls of one dispatch, in the order of the code:
\* controller.send_message(cmd_part); controller.send_message(time_part);
\* last_sent[account_id] = now;
\* ocr.find_channel_for_code(code, expected_ts=time_part, ...)
DispatchOps(name, code, time_part) ==
    << [op |-> "send", a |-> CmdPart(name, code), b |-> <<>>],
       [op |-> "send", a |-> time_part, b |-> <<>>],
       [op |-> "record", a |-> <<>>, b |-> <<>>],
       [op |-> "verify", a |-> code, b |-> time_part] >>

\* A channel record that is written whatever the verification found.
RecordChannelAlways(lc, aid, found, chan) == DictSet(lc, aid, chan)

\* if found: last_channel[account_id] = chan
RecordChannel(lc, aid, found, chan) ==
    IF found THEN DictSet(lc, aid, chan) ELSE lc

\* One item of the for loop, online and due: the two sends, the record of
\* the send time, the verification.  send_message catches the failures of
\* its adb and clipboard calls and returns True, so both sends are always
\* made; the verification may find nothing, lose the capture or raise (the
\* except branch only prints).
Dispatch ==
    /\ pc = "iter"
    /\ idx <= Len(statuses)
    /\ Info.online
    /\ LET url   == Item.url
           name  == OrEmpty(Info.name)
           code  == OrEmpty(Info.code)
           aid   == AccountId(url, Info)
           lastT == DictGet(last_sent, aid, LastSentDefault)
       IN  /\ DispatchDue(now, lastT)
           /\ last' = <<lastT>>
           /\ \E dt \in DateTimes :
                LET time_part == StrfTime(dt)
                    \* what the call can return, or None when it raises
                    outcomes  == {find_channel_for_code(code, time_part, RETRIES, sc) :
                                     sc \in FrameScripts(name, code, time_part)}
                                 \cup {None}
                IN  \E res \in outcomes :
                      LET found == IF res = None THEN FALSE ELSE res[1] IN
                      /\ last_sent' = RecordDispatch(last_sent, aid, now, found)
                      /\ last_channel' =
                             RecordChannel(last_channel, aid, found,
                                           IF res = None THEN None ELSE res[2])
                      /\ ev' = [kind |-> "dispatch", url |-> url, key |-> aid,
                                prev |-> disp[url].ph, prevT |-> disp[url].t,
                                line2 |-> time_part, ver |-> res,
                                before |-> <<>>,
                                ops |-> DispatchOps(name, code, time_part),
                                own |-> <<lastT>>, notify |-> "none"]
           /\ disp' = [disp EXCEPT ![url] = [ph |-> "sent", t |-> now]]
    /\ idx' = idx + 1
    /\ UNCHANGED <<pc, clock, now, next_check_at, statuses, ticks,
                   polled_at, parseVars, verVars, scrapeVars, cropVars,
                   sendVars, preVars>>

\* One item of the for loop, online and inside the send interval.
Throttled ==
    /\ pc = "iter"
    /\ idx <= Len(statuses)
    /\ Info.online
    /\ LET url   == Item.url
           aid   == AccountId(url, Info)
           lastT == DictGet(last_sent, aid, LastSentDefault)
       IN  /\ ~DispatchDue(now, lastT)
           /\ last' = <<lastT>>
           /\ ev' = [NoEv EXCEPT !.kind = "throttled", !.url = url, !.key = aid,
                                 !.prev = disp[url].ph, !.prevT = disp[url].t,
                                 !.own = <<lastT>>]
    /\ idx' = idx + 1
    /\ UNCHANGED <<pc, clock, now, next_check_at, statuses, last_sent,
                   last_channel, ticks, disp, polled_at, parseVars, verVars,
                   scrapeVars, cropVars, sendVars, preVars>>

\* if now - last >= SEND_INTERVAL: update_dashboard(is_online=False, ...)
\* in the offline branch, where `last` is what an earlier online item of the
\* loop bound it to: the NameError when it is bound to nothing, else the
\* notification is sent ("yes") or not ("no").
OfflineNotify(bound, t) ==
    IF bound = <<>> THEN "error"
    ELSE IF DispatchDue(t, bound[1]) THEN "yes" ELSE "no"

\* One item of the for loop, offline: the timer of account_id is dropped,
\* then `now - last` is evaluated with whatever `last` is bound to; when it
\* is bound to nothing the NameError ends the program.
Offline ==
    /\ pc = "iter"
    /\ idx <= Len(statuses)
    /\ ~Info.online
    /\ LET url == Item.url
           aid == AccountId(url, Info)
       IN  /\ last_sent' = DictPop(last_sent, aid)
           /\ ev' = [NoEv EXCEPT !.kind = "offline", !.url = url, !.key = aid,
                                 !.prev = disp[url].ph, !.prevT = disp[url].t,
                                 !.own = IF aid \in DOMAIN last_sent
                                         THEN <<last_sent[aid]>> ELSE <<>>,
                                 !.notify = OfflineNotify(last, now)]
           /\ disp' = [disp EXCEPT ![url] =
                         IF @.ph = "never" THEN @ ELSE [ph |-> "cleared", t |-> 0]]
    /\ IF last = <<>>
       THEN pc' = "crashed" /\ idx' = idx
       ELSE pc' = pc /\ idx' = idx + 1
    /\ UNCHANGED <<clock, now, next_check_at, statuses, last_channel, last,
                   ticks, polled_at, parseVars, verVars, scrapeVars,
                   cropVars, sendVars, preVars>>

\* The for loop is over: time.sleep(1), and the next iteration of while True.
Sleep ==
    /\ pc = "iter"
    /\ idx > Len(statuses)
    /\ \E d \in TickSteps :
          /\ clock + d <= StartTime + MaxElapsed
          /\ clock' = clock + d
    /\ ticks < MaxTicks
    /\ ticks' = ticks + 1
    /\ pc' = "tick"
    /\ ev' = [NoEv EXCEPT !.kind = "sleep"]
    /\ UNCHANGED <<now, next_check_at, statuses, idx, last_sent,
                   last_channel, last, disp, polled_at, parseVars, verVars,
                   scrapeVars, cropVars, sendVars, preVars>>

Next == Poll \/ PollFail \/ NoPoll \/ Dispatch \/ Throttled \/ Offline \/ Sleep

Spec == Init /\ [][Next]_vars


(***************************************************************************)
(* parse_whisper_info on bounded inputs (specification SpecParse).  A text *)
(* is put together from a prefix, the marker, a code body, a filler, the   *)
(* channel digits, the skipped glyph, the anchor, the timestamp digits and *)
(* a tail.                                                                 *)
(***************************************************************************)
Prefixes  == { <<>>, <<"x", " ">>, <<"#", "9", "9">> }
Markers   == { <<"#">>, <<"FW#">>, <<>> }
Bodies    == { <<"A", "B", "C", "D", "E">>, <<"A", "B", "C", "D", "9">> }
Fillers   == { <<>>, <<"f", "NL", "1", "x">>,
               <<"1", "x", "<", "<", "1", "2", "3", "4", "5", "6", "7", "8">> }
ChanParts == { <<>>, <<"7">>, <<"4", "FW2">> }
Skips     == { <<".">>, <<" ">>, <<>> }
Anchors   == { <<"<", "<">>, <<"FW<", " ", "<">>, <<"<">> }
StampsIn  == { <<"2", "0", "2", "4", "0", "1", "0", "1">>,
               <<"0", "1", "0", "2", "0", "3", "0", "4", "0", "5">>,
               <<"2", "0", "2", "4">> }

PartsSet ==
    [prefix : Prefixes, marker : Markers, body : Bodies, filler : Fillers,
     chan : ChanParts, skip : Skips, anchor : Anchors, stamp : StampsIn]

TextOf(q) ==
    q.prefix \o q.marker \o q.body \o q.filler \o q.chan \o q.skip
             \o q.anchor \o q.stamp

ExpectedCodes == { None, <<>>, <<"#", "A", "B", "C", "D", "E">>,
                   <<"#", "F", "G", "H", "I", "J">> }
ExpectedStamps == { None, <<"2", "0", "2", "4", "0", "1", "0", "1">>,
                    <<"2", "0", "2", "4", "0", "1", "0", "2">>,
                    <<"0", "1", "0", "2", "0", "3", "0", "4", "0", "5">> }

\* The empty text and a text of whitespace only.
BlankParts ==
    { [prefix |-> x, marker |-> <<>>, body |-> <<>>, filler |-> <<>>,
       chan |-> <<>>, skip |-> <<>>, anchor |-> <<>>, stamp |-> <<>>] :
      x \in { <<>>, <<" ", "NL">> } }

InitParseInputs ==
    /\ p_parts \in PartsSet \cup BlankParts
    /\ p_text = TextOf(p_parts)
    /\ p_code \in ExpectedCodes
    /\ p_ts \in ExpectedStamps
    /\ p_out = None

\* found, channel, ts = self.parse_whisper_info(text, expected_code, expected_ts)
Parse ==
    /\ p_out = None
    /\ p_out' = parse_whisper_info(p_text, p_code, p_ts)
    /\ UNCHANGED <<p_text, p_code, p_ts, p_parts, loopVars, verVars,
                   scrapeVars, cropVars, sendVars, preVars>>

InitP == InitLoop /\ InitParseInputs /\ InitVerify /\ InitScrape /\ InitIdle

NextParse == Parse

SpecParse == InitP /\ [][NextParse]_vars

(***************************************************************************)
(* find_channel_for_code, step by step (specification SpecVerify).         *)
(***************************************************************************)
MaxRetries == 3

VerifyCodes  == { <<"#", "A", "B", "C", "D", "E">>, <<>> }
VerifyStamps == { <<"2", "0", "2", "4", "0", "1", "0", "1">>, None }

\* What the recognition engine can read from a captured frame.
ScreenTexts ==
    { Garbage,
      Rendered(<<"A", "n", "n">>, <<"#", "A", "B", "C", "D", "E">>, <<"4", "2">>,
               <<"2", "0", "2", "4", "0", "1", "0", "1">>),
      Rendered(<<"A", "n", "n">>, <<"#", "A", "B", "C", "D", "E">>, <<"7">>,
               <<"2", "0", "2", "4", "0", "1", "0", "2">>) }

InitVerifyInputs ==
    /\ vpc = "loop"
    /\ v_code \in VerifyCodes
    /\ v_ts \in VerifyStamps
    /\ v_retries \in (0 - 1)..MaxRetries
    /\ attempt = 0
    /\ v_raw = None
    /\ v_last_raw = <<>>
    /\ v_ret = None
    /\ v_log = <<>>

\* A loop that runs once more than retries says.
MoreAttemptsInclusive(done, retries) == done <= retries

\* range(1, retries + 1) has a next value after `done` attempts.
MoreAttempts(done, retries) == done < retries

\* for attempt in range(1, retries + 1): ... ; return False, None, last_raw
VLoop ==
    /\ vpc = "loop"
    /\ IF MoreAttempts(attempt, v_retries)
       THEN /\ attempt' = attempt + 1
            /\ vpc' = "capture"
            /\ v_ret' = v_ret
       ELSE /\ attempt' = attempt
            /\ vpc' = "done"
            /\ v_ret' = ExhaustedResult(v_last_raw)
    /\ UNCHANGED <<v_code, v_ts, v_retries, v_raw, v_last_raw, v_log,
                   loopVars, parseVars, scrapeVars, cropVars, sendVars,
                   preVars>>

\* img = self.capture_screen(); if img is None: return False, None, ""
\* otherwise crop, isolate, binarize and recognize: raw = image_to_string(bw)
VCapture ==
    /\ vpc = "capture"
    /\ \E img \in ScreenTexts \cup {None} :
          IF img = None
          THEN /\ v_ret' = IF AfterNoFrame = "done" THEN NoFrameResult(v_last_raw)
                          ELSE v_ret
               /\ vpc' = AfterNoFrame
               /\ v_raw' = v_raw
               /\ v_log' = Append(v_log, "capture_none")
          ELSE /\ v_ret' = v_ret
               /\ vpc' = "parse"
               /\ v_raw' = img
               /\ v_log' = v_log \o <<"capture", "ocr">>
    /\ UNCHANGED <<v_code, v_ts, v_retries, attempt, v_last_raw, loopVars,
                   parseVars, scrapeVars, cropVars, sendVars, preVars>>

\* found, channel, ts = self.parse_whisper_info(raw, code, expected_ts)
\* if found: return True, channel, raw
VParse ==
    /\ vpc = "parse"
    /\ LET r == parse_whisper_info(v_raw, v_code, v_ts) IN
       IF r[1]
       THEN /\ v_ret' = <<TRUE, r[2], v_raw>>
            /\ vpc' = "done"
            /\ v_last_raw' = v_last_raw
       ELSE /\ v_ret' = v_ret
            /\ vpc' = "sleep"
            /\ v_last_raw' = UpdateLastRaw(v_last_raw, v_raw)
    /\ UNCHANGED <<v_code, v_ts, v_retries, attempt, v_raw, v_log, loopVars,
                   parseVars, scrapeVars, cropVars, sendVars, preVars>>

\* time.sleep(delay_s)
VSleep ==
    /\ vpc = "sleep"
    /\ v_log' = Append(v_log, "sleep")
    /\ vpc' = "loop"
    /\ UNCHANGED <<v_code, v_ts, v_retries, attempt, v_raw, v_last_raw,
                   v_ret, loopVars, parseVars, scrapeVars, cropVars,
                   sendVars, preVars>>

NextVerify == VLoop \/ VCapture \/ VParse \/ VSleep

InitV == InitLoop /\ InitParse /\ InitVerifyInputs /\ InitScrape /\ InitIdle

SpecVerify == InitV /\ [][NextVerify]_vars

(***************************************************************************)
(* check_multiple_status, step by step (specification SpecScrape).  The    *)
(* caller submits one check_target_status per url to the thread pool,      *)
(* takes the futures as they complete, leaves the `with` block and         *)
(* returns; the loop then goes on to its sends.  max_workers is 6 and the  *)
(* loop has 6 targets, so every submitted call starts at once.             *)
(***************************************************************************)
\* What a worker can end with: the record check_target_status returns, or
\* an exception (sync_playwright, the browser launch, new_page and
\* browser.close stand outside the try of check_target_status).
WorkerOutcomes(url) ==
    [raised : {FALSE}, rec : ScrapeResults(url)]
        \cup {[raised |-> TRUE, rec |-> DefaultRecord]}

\* A collection that starts the dict afresh when a worker raised.
CollectDropsOnFailure(res, url, f) ==
    IF f.raised THEN <<[url |-> url, info |-> DefaultRecord]>>
    ELSE Append(res, [url |-> url, info |-> f.rec])

\* try: results[url] = future.result()
\* except Exception: results[url] = {"online": False, "name": None, "code": None}
Collect(res, url, f) ==
    Append(res, [url |-> url,
                 info |-> IF f.raised THEN DefaultRecord ELSE f.rec])

\* A return taken as soon as one result is there, without waiting for the
\* workers.
ReturnReadyAtFirst(tk, f) == tk # {}

\* return results: the for loop over as_completed is over, and the `with`
\* block has shut the executor down, which waits for every worker.
ReturnReady(tk, f) ==
    /\ tk = Urls
    /\ \A u \in Urls : f[u].st = "finished"

InitScrapeCall ==
    /\ s_pc = "submit" /\ s_sub = 0 /\ taken = {} /\ results = <<>>
    /\ fut = [u \in Urls |-> [st |-> "new", raised |-> FALSE,
                              rec |-> DefaultRecord]]

\* executor.submit(check_target_status, url), url by url
Submit ==
    /\ s_pc = "submit"
    /\ s_sub < Len(targets)
    /\ s_sub' = s_sub + 1
    /\ fut' = [fut EXCEPT ![targets[s_sub + 1]].st = "running"]
    /\ s_pc' = IF s_sub + 1 = Len(targets) THEN "collect" ELSE "submit"
    /\ UNCHANGED <<taken, results, loopVars, parseVars, verVars, cropVars,
                   sendVars, preVars>>

\* A worker ends its check_target_status.
WorkerEnds ==
    \E u \in Urls :
        /\ fut[u].st = "running"
        /\ \E o \in WorkerOutcomes(u) :
              fut' = [fut EXCEPT ![u] = [st |-> "finished", raised |-> o.raised,
                                         rec |-> o.rec]]
        /\ UNCHANGED <<s_pc, s_sub, taken, results, loopVars, parseVars,
                   verVars, cropVars, sendVars, preVars>>

\* for future in as_completed(future_to_url): one finished future
TakeResult ==
    /\ s_pc = "collect"
    /\ \E u \in Urls \ taken :
          /\ fut[u].st = "finished"
          /\ results' = Collect(results, u, fut[u])
          /\ taken' = taken \cup {u}
    /\ UNCHANGED <<s_pc, s_sub, fut, loopVars, parseVars, verVars, cropVars,
                   sendVars, preVars>>

\* return results
Return ==
    /\ s_pc = "collect"
    /\ ReturnReady(taken, fut)
    /\ s_pc' = "returned"
    /\ UNCHANGED <<s_sub, fut, taken, results, loopVars, parseVars, verVars,
                   cropVars, sendVars, preVars>>

\* The loop, holding the returned statuses, begins the first send of the
\* tick (controller.send_message).
FirstSend ==
    /\ s_pc = "returned"
    /\ \E i \in 1..Len(results) : results[i].info.online
    /\ s_pc' = "device"
    /\ UNCHANGED <<s_sub, fut, taken, results, loopVars, parseVars, verVars,
                   cropVars, sendVars, preVars>>

NextScrape == Submit \/ WorkerEnds \/ TakeResult \/ Return \/ FirstSend

InitS == InitLoop /\ InitParse /\ InitVerify /\ InitScrapeCall /\ InitIdle

SpecScrape == InitS /\ [][NextScrape]_vars

(***************************************************************************)
(* The crop of find_channel_for_code (specification SpecCrop): the fixed   *)
(* region of interest, clamped to the height and width of the frame.       *)
(***************************************************************************)
\* y1, y2, x1, x2 = 219, 260, 291, 890
ROI_Y1 == 219
ROI_Y2 == 260
ROI_X1 == 291
ROI_X2 == 890

Min2(a, b) == IF a <= b THEN a ELSE b
Max2(a, b) == IF a >= b THEN a ELSE b

\* y1 = max(0, min(y1, h - 1)); x1 = max(0, min(x1, w - 1))
ClampLow(v, size) == Max2(0, Min2(v, size - 1))

\* An upper bound that is not held to the size of the frame.
ClampHighUnbounded(v, size) == Max2(0, v)

\* y2 = max(0, min(y2, h)); x2 = max(0, min(x2, w))
ClampHigh(v, size) == Max2(0, Min2(v, size))

\* cropped = img[y1:y2, x1:x2] if (y2 > y1 and x2 > x1) else img
CropOf(h, w) ==
    LET y1 == ClampLow(ROI_Y1, h)
        y2 == ClampHigh(ROI_Y2, h)
        x1 == ClampLow(ROI_X1, w)
        x2 == ClampHigh(ROI_X2, w)
    IN  [y1 |-> y1, y2 |-> y2, x1 |-> x1, x2 |-> x2,
         full |-> ~(y2 > y1 /\ x2 > x1)]

\* The heights and widths of the frames: the smallest ones, the ones around
\* the bounds of the region of interest, and the largest of the model.
MaxH == 1080
MaxW == 1920
Around(k) == (k - 2)..(k + 2)
Heights == {1, 2} \cup Around(ROI_Y1) \cup Around(ROI_Y2) \cup {MaxH}
Widths  == {1, 2} \cup Around(ROI_X1) \cup Around(ROI_X2) \cup {MaxW}

\* h, w = img.shape[:2] of a frame that cv2.imdecode returned
InitCropInputs ==
    /\ c_h \in Heights
    /\ c_w \in Widths
    /\ c_out = <<>>

Crop ==
    /\ c_out = <<>>
    /\ c_out' = <<CropOf(c_h, c_w)>>
    /\ UNCHANGED <<c_h, c_w, loopVars, parseVars, verVars, scrapeVars,
                   sendVars, preVars>>

NextCrop == Crop

InitC == InitLoop /\ InitParse /\ InitVerify /\ InitScrape /\ InitCropInputs
             /\ InitSend /\ InitPre

SpecCrop == InitC /\ [][NextCrop]_vars

(***************************************************************************)
(* send_message (specification SpecSend): tap the input field, set the     *)
(* clipboard, paste, tap the send button.  Each step runs one external     *)
(* command, which ends well, with a non-zero return code, with a timeout   *)
(* or with another exception.                                              *)
(***************************************************************************)
CommandEnds == {"ok", "nonzero", "timeout", "exception"}

\* _run_adb: True when the command ran and returned code 0; every failure
\* is caught and gives False.
RunAdb(end) == end = "ok"

\* human_tap: the result of _run_adb is dropped; return True
HumanTap(end) == TRUE

\* paste_from_clipboard: return self._run_adb("shell", "input", "keyevent", "279")
PasteFromClipboard(end) == RunAdb(end)

\* set_windows_clipboard: subprocess.run without a check of the return
\* code; True unless the call raised (a timeout is an exception too).
SetWindowsClipboard(end) == end \in {"ok", "nonzero"}

\* send_message drops what its helpers returned; return True
SendMessageResult(calls) == TRUE

\* The messages the loop sends: a header and a timestamp line.
Messages ==
    { CmdPart(<<"A", "n", "n">>, <<"#", "A", "B", "C", "D", "E">>),
      StrfTime(<<1, 2, 3, 4, 5>>) }

InitSendCall ==
    /\ m_pc = "tap" /\ m_msg \in Messages /\ m_steps = <<>> /\ m_calls = <<>>
    /\ m_ret = <<>>

\* self.human_tap(tap_x, tap_y)
TapInput ==
    /\ m_pc = "tap"
    /\ \E e \in CommandEnds :
          /\ m_steps' = Append(m_steps, e)
          /\ m_calls' = Append(m_calls, HumanTap(e))
    /\ m_pc' = "clipboard"
    /\ UNCHANGED <<m_msg, m_ret, loopVars, parseVars, verVars, scrapeVars,
                   cropVars, preVars>>

\* self.set_windows_clipboard(message)
SetClipboard ==
    /\ m_pc = "clipboard"
    /\ \E e \in CommandEnds :
          /\ m_steps' = Append(m_steps, e)
          /\ m_calls' = Append(m_calls, SetWindowsClipboard(e))
    /\ m_pc' = "paste"
    /\ UNCHANGED <<m_msg, m_ret, loopVars, parseVars, verVars, scrapeVars,
                   cropVars, preVars>>

\* self.paste_from_clipboard()
Paste ==
    /\ m_pc = "paste"
    /\ \E e \in CommandEnds :
          /\ m_steps' = Append(m_steps, e)
          /\ m_calls' = Append(m_calls, PasteFromClipboard(e))
    /\ m_pc' = "send"
    /\ UNCHANGED <<m_msg, m_ret, loopVars, parseVars, verVars, scrapeVars,
                   cropVars, preVars>>

\* self.human_tap(send_button_x, send_button_y); return True
TapSend ==
    /\ m_pc = "send"
    /\ \E e \in CommandEnds :
          /\ m_steps' = Append(m_steps, e)
          /\ m_calls' = Append(m_calls, HumanTap(e))
          /\ m_ret' = <<SendMessageResult(Append(m_calls, HumanTap(e)))>>
    /\ m_pc' = "done"
    /\ UNCHANGED <<m_msg, loopVars, parseVars, verVars, scrapeVars,
                   cropVars, preVars>>

NextSend == TapInput \/ SetClipboard \/ Paste \/ TapSend

InitM == InitLoop /\ InitParse /\ InitVerify /\ InitScrape /\ InitCrop
             /\ InitSendCall /\ InitPre

SpecSend == InitM /\ [][NextSend]_vars

(***************************************************************************)
(* isolate_bright_green_text and the binarization of find_channel_for_code *)
(* (specification SpecPre).  A frame is a grid of BGR pixels; the grid has *)
(* as many rows and columns as the contrast enhancement has tiles, so that *)
(* a tile is one pixel.  Every operation is the one of the library call.   *)
(***************************************************************************)
\* lower_green = [50, 100, 100]; upper_green = [75, 255, 255]
HUE_LOW  == 50
HUE_HIGH == 75
SAT_LOW  == 100
VAL_LOW  == 100
LEVEL_MAX == 255

\* kernel = np.ones((2, 2)); createCLAHE(clipLimit=2.0, tileGridSize=(8, 8))
KERNEL == 2
CLIP_LIMIT == 2
TILES == 8
HIST_SIZE == 256

Side == TILES
Pos  == (0..(Side - 1)) \X (0..(Side - 1))

\* n / d for n >= 0 and d > 0, rounded to the nearest integer, a half to
\* the even one (cvRound).
RoundDiv(n, d) ==
    LET q == n \div d
        r == 2 * (n % d)
    IN  IF r < d THEN q
        ELSE IF r > d THEN q + 1
        ELSE IF q % 2 = 0 THEN q ELSE q + 1

Max3(a, b, c) == Max2(a, Max2(b, c))
Min3(a, b, c) == Min2(a, Min2(b, c))

\* cv2.cvtColor(., COLOR_BGR2HSV) on one 8-bit pixel: hue in 0..179
HSV(p) ==
    LET v == Max3(p.b, p.g, p.r)
        d == v - Min3(p.b, p.g, p.r)
        num == IF v = p.r THEN 30 * (p.g - p.b)
               ELSE IF v = p.g THEN 60 * d + 30 * (p.b - p.r)
               ELSE 120 * d + 30 * (p.r - p.g)
    IN  [h |-> IF d = 0 THEN 0
               ELSE RoundDiv(IF num < 0 THEN num + 180 * d ELSE num, d) % 180,
         s |-> IF v = 0 THEN 0 ELSE RoundDiv(LEVEL_MAX * d, v),
         v |-> v]

\* cv2.cvtColor(., COLOR_BGR2GRAY) on one 8-bit pixel (fixed point, 14 bits)
Gray(p) == (p.b * 1868 + p.g * 9617 + p.r * 4899 + 8192) \div 16384

\* cv2.inRange(hsv_img, lower_green, upper_green) on one pixel
InRange(c) ==
    /\ c.h >= HUE_LOW /\ c.h <= HUE_HIGH
    /\ c.s >= SAT_LOW /\ c.s <= LEVEL_MAX
    /\ c.v >= VAL_LOW /\ c.v <= LEVEL_MAX

\* The pixels of the kernel around a position (anchor at the kernel's
\* centre, KERNEL \div 2), as far as they lie inside the image; the border
\* takes no part in an erosion or a dilation.
Under(q) ==
    { r \in Pos : /\ r[1] >= q[1] - KERNEL \div 2
                  /\ r[1] <= q[1] - KERNEL \div 2 + KERNEL - 1
                  /\ r[2] >= q[2] - KERNEL \div 2
                  /\ r[2] <= q[2] - KERNEL \div 2 + KERNEL - 1 }

Erode(img)  == [q \in Pos |-> SetMin({img[r] : r \in Under(q)})]
Dilate(img) == [q \in Pos |-> SetMax({img[r] : r \in Under(q)})]

\* cv2.morphologyEx(mask, MORPH_OPEN, kernel); cv2.morphologyEx(mask, MORPH_CLOSE, kernel)
MorphOpen(img) ==
    LET e == Erode(img) IN Dilate([q \in Pos |-> e[q]])
MorphClose(img) ==
    LET d == Dilate(img) IN Erode([q \in Pos |-> d[q]])

RECURSIVE SetSum(_)
\* The sum of the second components of a set of pairs.
SetSum(S) ==
    IF S = {} THEN 0
    ELSE LET x == CHOOSE y \in S : TRUE IN x[2] + SetSum(S \ {x})

\* CLAHE: the tiles, the clip limit of a tile histogram and the look-up
\* table of a tile.  tileSizeTotal pixels per tile;
\* clipLimit = max(int(clipLimit * tileSizeTotal / histSize), 1).
TileW    == Side \div TILES
TileArea == TileW * TileW
TilePos(t) ==
    { q \in Pos : q[1] \div TileW = t[1] /\ q[2] \div TileW = t[2] }
ClipLimitOf == Max2((CLIP_LIMIT * TileArea) \div HIST_SIZE, 1)

\* The histogram of the tile is clipped, the clipped count is spread over
\* all bins (the remainder over every step-th bin), and the table is the
\* running sum scaled by (histSize - 1) / tileSizeTotal.
TileLut(img, t, v) ==
    LET present  == {img[q] : q \in TilePos(t)}
        hist(i)  == Cardinality({q \in TilePos(t) : img[q] = i})
        clipped  == SetSum({<<i, Max2(hist(i) - ClipLimitOf, 0)>> : i \in present})
        batch    == clipped \div HIST_SIZE
        residual == clipped % HIST_SIZE
        step     == IF residual = 0 THEN 1 ELSE Max2(HIST_SIZE \div residual, 1)
        extra    == IF residual = 0 THEN 0 ELSE Min2(residual, v \div step + 1)
        sum      == SetSum({<<i, Min2(hist(i), ClipLimitOf)>> :
                               i \in {j \in present : j <= v}})
                    + (v + 1) * batch + extra
    IN  Min2(RoundDiv(sum * (HIST_SIZE - 1), TileArea), LEVEL_MAX)

\* clahe.apply: every pixel is looked up in the tables of the four tiles
\* around it, and the four results are interpolated bilinearly.
ClaheApply(img) ==
    [q \in Pos |->
        LET v   == img[q]
            D   == 2 * TileW
            nx  == 2 * q[1] - TileW
            ny  == 2 * q[2] - TileW
            fx  == IF nx < 0 THEN 0 - 1 ELSE nx \div D
            fy  == IF ny < 0 THEN 0 - 1 ELSE ny \div D
            xa  == nx - D * fx
            ya  == ny - D * fy
            tx1 == Max2(fx, 0)
            ty1 == Max2(fy, 0)
            tx2 == Min2(fx + 1, TILES - 1)
            ty2 == Min2(fy + 1, TILES - 1)
        IN  RoundDiv((TileLut(img, <<tx1, ty1>>, v) * (D - xa)
                        + TileLut(img, <<tx2, ty1>>, v) * xa) * (D - ya)
                     + (TileLut(img, <<tx1, ty2>>, v) * (D - xa)
                        + TileLut(img, <<tx2, ty2>>, v) * xa) * ya,
                     D * D)]

\* Numbers too long for one machine word, as <<high, low>> in base 2^18.
Base == 262144
Half == 512
Square(x) ==
    LET xh  == x \div Half
        xl  == x % Half
        mid == 2 * xh * xl
        t   == (mid % Half) * Half + xl * xl
    IN  <<xh * xh + mid \div Half + t \div Base, t % Base>>
Times(n, k) == <<n[1] * k + (n[2] * k) \div Base, (n[2] * k) % Base>>
Greater(m, n) == m[1] > n[1] \/ (m[1] = n[1] /\ m[2] > n[2])

\* The threshold that THRESH_OTSU computes: the first level at which the
\* variance between the two classes is largest, 0 when no level splits the
\* image in two classes.
OtsuThreshold(img) ==
    LET levels == {img[q] : q \in Pos}
        n      == Cardinality(Pos)
        total  == SetSum({<<q, img[q]>> : q \in Pos})
        q1(t)  == Cardinality({q \in Pos : img[q] <= t})
        s1(t)  == SetSum({<<q, img[q]>> : q \in {r \in Pos : img[r] <= t}})
        cands  == {t \in levels : q1(t) < n}
        \* between-class variance, up to the factor 1 / n^2, as num / den
        diff(t) == LET a == s1(t) * (n - q1(t)) - (total - s1(t)) * q1(t)
                   IN  IF a < 0 THEN 0 - a ELSE a
        den(t)  == q1(t) * (n - q1(t))
        better(t, u) == Greater(Times(Square(diff(t)), den(u)),
                                Times(Square(diff(u)), den(t)))
        best   == {t \in cands : \A u \in cands : ~better(u, t)}
    IN  IF cands = {} THEN 0 ELSE SetMin(best)

\* cv2.threshold(gray_iso, 0, 255, THRESH_BINARY + THRESH_OTSU)
Binarize(img, t) ==
    [q \in Pos |-> IF img[q] > t THEN LEVEL_MAX ELSE 0]

\* Pixels: two of the rendering colour (inside the band) and six outside it
\* (no colour, another hue, too dark, washed out).
Pixel(b, g, r) == [b |-> b, g |-> g, r |-> r]
Black      == Pixel(0, 0, 0)
InBand     == {Pixel(0, 255, 0), Pixel(40, 200, 60)}
OutOfBand  == {Black, Pixel(255, 255, 255), Pixel(0, 0, 255), Pixel(0, 90, 0),
               Pixel(200, 255, 200), Pixel(255, 255, 0)}
Palette    == InBand \cup OutOfBand

\* Rectangles <<x1, y1, x2, y2>> of a frame: none, one pixel, a line one
\* pixel thick, two blocks and the whole frame.
Rects == {<<0, 0, 0 - 1, 0 - 1>>, <<2, 2, 2, 2>>, <<0, 3, Side - 1, 3>>,
          <<1, 1, 2, 2>>, <<3, 2, 6, 4>>, <<0, 0, Side - 1, Side - 1>>}
Inside(q, rc) ==
    q[1] >= rc[1] /\ q[1] <= rc[3] /\ q[2] >= rc[2] /\ q[2] <= rc[4]

\* The cropped frames: a background colour and a rectangle of another one.
Frames ==
    { [q \in Pos |-> IF Inside(q, rc) THEN fg ELSE bg] :
        bg \in Palette, fg \in Palette, rc \in Rects }

InitPreInputs ==
    /\ f_pc = "cropped"
    /\ f_frame \in Frames
    /\ f_mask = <<>>
    /\ f_img = <<>>

\* hsv_img = cvtColor(bgr_img, COLOR_BGR2HSV); mask = inRange(hsv_img, ...)
PMask ==
    /\ f_pc = "cropped"
    /\ f_mask' = [q \in Pos |-> IF InRange(HSV(f_frame[q])) THEN LEVEL_MAX ELSE 0]
    /\ f_pc' = "mask"
    /\ UNCHANGED <<f_frame, f_img, loopVars, parseVars, verVars, scrapeVars, cropVars, sendVars>>

POpen ==
    /\ f_pc = "mask"
    /\ f_mask' = MorphOpen(f_mask)
    /\ f_pc' = "opened"
    /\ UNCHANGED <<f_frame, f_img, loopVars, parseVars, verVars, scrapeVars, cropVars, sendVars>>

PClose ==
    /\ f_pc = "opened"
    /\ f_mask' = MorphClose(f_mask)
    /\ f_pc' = "closed"
    /\ UNCHANGED <<f_frame, f_img, loopVars, parseVars, verVars, scrapeVars, cropVars, sendVars>>

\* colored = bitwise_and(bgr_img, bgr_img, mask=mask);
\* gray_colored = cvtColor(colored, COLOR_BGR2GRAY)
PGray ==
    /\ f_pc = "closed"
    /\ f_img' = [q \in Pos |-> Gray(IF f_mask[q] # 0 THEN f_frame[q] ELSE Black)]
    /\ f_pc' = "gray"
    /\ UNCHANGED <<f_frame, f_mask, loopVars, parseVars, verVars, scrapeVars, cropVars, sendVars>>

PClahe ==
    /\ f_pc = "gray"
    /\ f_img' = ClaheApply(f_img)
    /\ f_pc' = "enhanced"
    /\ UNCHANGED <<f_frame, f_mask, loopVars, parseVars, verVars, scrapeVars, cropVars, sendVars>>

PThreshold ==
    /\ f_pc = "enhanced"
    /\ f_img' = Binarize(f_img, OtsuThreshold(f_img))
    /\ f_pc' = "done"
    /\ UNCHANGED <<f_frame, f_mask, loopVars, parseVars, verVars, scrapeVars, cropVars, sendVars>>

NextPre == PMask \/ POpen \/ PClose \/ PGray \/ PClahe \/ PThreshold

InitF ==
    /\ InitLoop /\ InitParse /\ InitVerify /\ InitScrape
    /\ InitCrop /\ InitSend /\ InitPreInputs

SpecPre == InitF /\ [][NextPre]_vars

(***************************************************************************)
(* Properties of the orchestration loop (specification Spec).              *)
(***************************************************************************)
\* The keys under which the loop can have stored the timer of a target.
KeysOf(url) == {url, CodeOf(url)}

\* C1: throttle.  A target that was dispatched at tick time t and has not
\* been observed offline since is not dispatched again at a tick whose time
\* is less than SEND_INTERVAL after t.
C1_NoDispatchInsideWindow ==
    (ev.kind = "dispatch" /\ ev.prev = "sent") => now - ev.prevT >= SEND_INTERVAL

\* C2: once the loop has processed an offline record of a target, no
\* last_sent entry exists for that target.
C2_OfflineClearsTimer ==
    ev.kind = "offline" => \A k \in KeysOf(ev.url) : k \notin DOMAIN last_sent

C4_LoopNeverCrashes == pc # "crashed"

\* C5: a failed batch scrape leaves the known statuses as they were.
C5_FailedPollKeepsStatuses ==
    ev.kind = "pollfail" => statuses = ev.before

\* C6: the timestamp line that is sent, and expected back by the verifier,
\* is exactly as many digits as the parser's timestamp field.
C6_TimestampWidth ==
    ev.kind = "dispatch" =>
        /\ Len(ev.line2) = TS_DIGITS
        /\ AllDigits(ev.line2, 1, Len(ev.line2))

\* C9: right after a dispatch the timer of the account holds the tick time,
\* whatever the verification did; and a timer is only ever set or moved by
\* a dispatch.
C9_TimerSetByDispatch ==
    /\ [](ev.kind = "dispatch" =>
            ev.key \in DOMAIN last_sent /\ last_sent[ev.key] = now)
    /\ [][\A k \in DOMAIN last_sent' :
            (k \notin DOMAIN last_sent \/ last_sent'[k] # last_sent[k]) =>
                ev'.kind = "dispatch" /\ ev'.key = k /\ last_sent'[k] = now]_vars

C9_Witness ==
    /\ ev.kind = "dispatch"
    /\ ev.ver = None
    /\ last_sent[ev.key] = now


(***************************************************************************)
(* Properties of find_channel_for_code (specification SpecVerify).         *)
(***************************************************************************)
\* C7: a capture that gives no frame is the last thing the call does: it
\* has returned (False, None, ""), and nothing was captured, recognized or
\* slept after it, whichever attempt it was.
C7_NoFrameReturnsAtOnce ==
    \A i \in 1..Len(v_log) :
        v_log[i] = "capture_none" =>
            /\ i = Len(v_log)
            /\ vpc = "done"
            /\ v_ret = <<FALSE, None, <<>>>>

C7_Witness ==
    /\ vpc = "done"
    /\ attempt = 2
    /\ v_log = <<"capture", "ocr", "sleep", "capture_none">>
    /\ v_ret = <<FALSE, None, <<>>>>

\* Every attempt captured a frame, none matched, and the attempts are used up.
Exhausted ==
    /\ vpc = "done"
    /\ v_retries >= 1
    /\ attempt = v_retries
    /\ ~v_ret[1]
    /\ v_log[Len(v_log)] = "sleep"

\* C8: after the last attempt missed, the call returns failure with the raw
\* text recognized in that last attempt.
C8_ExhaustedReturnsLastRaw ==
    Exhausted => v_ret = <<FALSE, None, v_raw>>

\* The numbers of captures and of sleeps the call has made so far.
Captures == Cardinality({i \in 1..Len(v_log) : v_log[i] \in {"capture", "capture_none"}})
Sleeps   == Cardinality({i \in 1..Len(v_log) : v_log[i] = "sleep"})

\* The parse of the text recognized in the current attempt matches.
RawMatches == parse_whisper_info(v_raw, v_code, v_ts)[1]

C15_Safe ==
    \* at most retries captures, none when retries <= 0
    /\ Captures <= (IF v_retries > 0 THEN v_retries ELSE 0)
    /\ Captures <= attempt
    \* a recognition that is not the last call is followed by a sleep, and a
    \* sleep by the next capture; a sleep only ever follows a recognition
    /\ \A i \in 1..Len(v_log) :
          /\ (v_log[i] = "ocr" /\ i < Len(v_log)) => v_log[i + 1] = "sleep"
          /\ v_log[i] = "sleep" => (i > 1 /\ v_log[i - 1] = "ocr")
          /\ (v_log[i] = "sleep" /\ i < Len(v_log))
                => v_log[i + 1] \in {"capture", "capture_none"}
    \* the sleep is for an attempt that did not match
    /\ vpc = "sleep" => ~RawMatches
    \* the call that ended right after a recognition ended with a match, and
    \* returned it; every other end of the call is a failure
    /\ (vpc = "done" /\ Len(v_log) > 0 /\ v_log[Len(v_log)] = "ocr")
          => (RawMatches /\ v_ret[1] = TRUE /\ v_ret[3] = v_raw)
    /\ (vpc = "done" /\ v_ret[1] = TRUE)
          => (Len(v_log) > 0 /\ v_log[Len(v_log)] = "ocr" /\ Sleeps = attempt - 1)
    /\ (vpc = "done" /\ v_ret[1] = FALSE /\ v_ret # <<FALSE, None, <<>>>>) => FALSE
    /\ (vpc = "done" /\ v_ret[1] = FALSE /\ v_log # <<>>
           /\ v_log[Len(v_log)] = "sleep") => Sleeps = attempt

\* The number of steps the call can still take: four per attempt not yet
\* begun, and the rest of the current one.
StepsLeft ==
    LET n == IF v_retries > 0 THEN v_retries ELSE 0 IN
    CASE vpc = "done"    -> 0
      [] vpc = "loop"    -> 4 * (n - attempt) + 1
      [] vpc = "sleep"   -> 4 * (n - attempt) + 2
      [] vpc = "parse"   -> 4 * (n - attempt) + 3
      [] vpc = "capture" -> 4 * (n - attempt) + 4

\* C15: the call terminates (every step takes it nearer to its return, and
\* the steps that are left are never fewer than none); it makes at most retries
\* captures (none when retries <= 0); it returns success at the first
\* attempt whose parse matches, with no capture and no sleep after it; it
\* sleeps after every attempt that did not match, before the next capture.
C15_BoundedAttempts ==
    /\ [](C15_Safe /\ StepsLeft >= 0)
    /\ [][StepsLeft' < StepsLeft]_vars

C15_Witness ==
    /\ vpc = "done"
    /\ v_retries = 3
    /\ attempt = 2
    /\ v_log = <<"capture", "ocr", "sleep", "capture", "ocr">>
    /\ v_ret[1] = TRUE

(***************************************************************************)
(* Properties of parse_whisper_info (specification SpecParse).             *)
(***************************************************************************)
\* The normalized channel digits and the timestamp field of a text, as they
\* follow from the way the text was put together.
ChanOf(q)  == Normalize(q.chan)
StampOf(q) == SubSeq(q.stamp, 1, TS_DIGITS)

\* The pattern matched p_text, and the code or the timestamp it captured is
\* not the expected one.
Mismatch ==
    LET m == Search(Normalize(p_text)) IN
    /\ m.found
    /\ \/ Truthy(p_code) /\ <<"#">> \o m.code # p_code
       \/ Truthy(p_ts) /\ m.ts # p_ts

\* The places of a normalized text where the anchor and eight digits stand.
AnchorsIn(norm) ==
    { a \in 1..Len(norm) :
        /\ a + 1 + TS_DIGITS <= Len(norm)
        /\ norm[a] = "<" /\ norm[a + 1] = "<"
        /\ AllDigits(norm, a + 2, a + 1 + TS_DIGITS) }

\* The text was put together with channel digits that no other digit
\* precedes, with a skipped glyph that normalization keeps, and with no
\* anchor and timestamp inside the filler.
WellFormed(q) ==
    LET before == Normalize(q.prefix \o q.marker \o q.body \o q.filler) IN
    /\ q.chan # <<>>
    /\ q.skip # <<>> /\ q.skip[1] \notin Whitespace
    /\ before[Len(before)] \notin Digits
    /\ Cardinality(AnchorsIn(Normalize(TextOf(q)))) <= 1

\* C10: on a code or timestamp mismatch the parser returns False together
\* with the channel and the timestamp it captured, never (False, None,
\* None); for a text put together with a channel and a skipped glyph these
\* are the channel digits and the first eight timestamp digits of the text.
C10_MismatchKeepsDiagnostics ==
    (p_out # None /\ Mismatch) =>
        /\ p_out[1] = FALSE
        /\ p_out[2] # None /\ p_out[2] # <<>>
        /\ AllDigits(p_out[2], 1, Len(p_out[2]))
        /\ p_out[3] # None /\ Len(p_out[3]) = TS_DIGITS
        /\ AllDigits(p_out[3], 1, TS_DIGITS)
        /\ WellFormed(p_parts) =>
               p_out = <<FALSE, ChanOf(p_parts), StampOf(p_parts)>>

C10_Witness ==
    /\ p_text = <<"#", "A", "B", "C", "D", "E", "4", "FW2", ".", "<", "<",
                  "2", "0", "2", "4", "0", "1", "0", "1">>
    /\ p_code = <<"#", "A", "B", "C", "D", "E">>
    /\ p_ts = <<"2", "0", "2", "4", "0", "1", "0", "2">>
    /\ p_out = <<FALSE, <<"4", "2">>, <<"2", "0", "2", "4", "0", "1", "0", "1">>>>

RECURSIVE TrailingDigits(_)
\* The digit run that ends a sequence of characters.
TrailingDigits(s) ==
    IF s = <<>> \/ s[Len(s)] \notin Digits THEN <<>>
    ELSE TrailingDigits(SubSeq(s, 1, Len(s) - 1)) \o <<s[Len(s)]>>

\* The whole digit run that stands before the skipped glyph of a text.
WholeRun(q) == TrailingDigits(Normalize(q.filler \o q.chan))

\* The text is the marker, five code characters, a filler, one or more
\* digits, one character, the anchor and exactly eight digits.
ConfirmationShape(q) ==
    /\ q.prefix = <<>>
    /\ q.marker = <<"#">>
    /\ Len(q.body) = CODE_CHARS
    /\ q.chan # <<>>
    /\ Len(q.skip) = 1
    /\ q.anchor = <<"<", "<">>
    /\ Len(q.stamp) = TS_DIGITS

\* The expected code and timestamp are the ones the text carries.
ExpectedAsWritten(q) ==
    /\ p_code = <<"#">> \o q.body
    /\ p_ts = q.stamp

SingleConfirmation(q) ==
    /\ \A i \in 1..Len(q.body) : q.body[i] \notin Whitespace
    /\ q.skip[1] \notin Whitespace
    /\ Cardinality(AnchorsIn(Normalize(TextOf(q)))) = 1

NoDigitRun(q) ==
    LET before == Normalize(q.prefix \o q.marker \o q.body \o q.filler
                                     \o q.chan \o q.skip) IN
    \A i \in 1..Len(before) : before[i] \notin Digits

\* The normalized text has no marker, or no anchor followed by eight digits.
NoMarkerOrAnchor ==
    LET norm == Normalize(p_text) IN
    \/ \A i \in 1..Len(norm) : norm[i] # "#"
    \/ AnchorsIn(norm) = {}

\* C12: for an empty text and for a text the pattern does not match (no
\* marker, no anchor with eight digits, or no digit run before the anchor)
\* the parser returns (False, None, None); channel and timestamp are never
\* filled one without the other.
C12_NoMatchIsAllNull ==
    p_out # None =>
        /\ (p_text = <<>> \/ ~Search(Normalize(p_text)).found)
               => p_out = <<FALSE, None, None>>
        /\ (NoMarkerOrAnchor \/ NoDigitRun(p_parts))
               => p_out = <<FALSE, None, None>>
        /\ (p_out[2] = None) <=> (p_out[3] = None)

C12_Witness ==
    /\ p_text = <<"#", "A", "B", "C", "D", "E", ".", "<", "<",
                  "2", "0", "2", "4", "0", "1", "0", "1">>
    /\ p_code = <<"#", "A", "B", "C", "D", "E">>
    /\ p_ts = <<"2", "0", "2", "4", "0", "1", "0", "1">>
    /\ p_out = <<FALSE, None, None>>

(***************************************************************************)
(* Properties of the main loop, continued (specification Spec).            *)
(***************************************************************************)
\* C13: the key of an account's state is one durable identifier of the
\* target.  The key of every processed record is an identifier of its
\* target and no display name; the timers of one target never stand under
\* two keys; and the timer a record of a dispatched, never since offline
\* target is looked up with is the time of that last dispatch.
C13_KeyIsDurable ==
    /\ ev.kind \in {"dispatch", "throttled", "offline"}
           => ev.key \in KeysOf(ev.url)
    /\ \A u \in Urls : ~(KeysOf(u) \subseteq DOMAIN last_sent)
    /\ (ev.kind \in {"dispatch", "throttled"} /\ ev.prev = "sent")
           => last = <<ev.prevT>>

\* The tick that is under way, or just over, ran a poll.
PolledThisTick == polled_at = <<now>>

\* C16: eligibility is evaluated at every tick.  An online account that a
\* tick passes over was dispatched less than SEND_INTERVAL before and not
\* seen offline since; and when a tick is over, whether it polled or not,
\* every account whose latest known status is online has been dispatched
\* less than SEND_INTERVAL before, in this tick or an earlier one.
C16_EligibleDispatchedEveryTick ==
    /\ ev.kind = "throttled"
          => (ev.prev = "sent" /\ now - ev.prevT < SEND_INTERVAL)
    /\ ev.kind = "sleep" =>
          \A i \in 1..Len(statuses) :
              statuses[i].info.online =>
                  /\ disp[statuses[i].url].ph = "sent"
                  /\ now - disp[statuses[i].url].t < SEND_INTERVAL

C16_Witness ==
    /\ ev.kind = "dispatch"
    /\ ev.prev = "sent"
    /\ now - ev.prevT >= SEND_INTERVAL
    /\ ~PolledThisTick

\* C17: a poll runs at the first tick; after a poll, successful or failed,
\* the scheduled time is the time of that poll + CHECK_INTERVAL + a jitter
\* in [-5, 5]; a poll runs only at a tick whose time has reached the
\* scheduled time, and so at least CHECK_INTERVAL - 5 after the poll before.
C17_PollSchedule ==
    /\ []((ticks = 1 /\ pc # "tick") => polled_at = <<StartTime>>)
    /\ [](polled_at # <<>> =>
             /\ next_check_at - polled_at[1] >= CHECK_INTERVAL - 5
             /\ next_check_at - polled_at[1] <= CHECK_INTERVAL + 5)
    /\ [](ev.kind \in {"poll", "pollfail"} => PolledThisTick)
    /\ [](ev.kind = "tick" => (~PolledThisTick /\ now < next_check_at))
    /\ [][ev'.kind \in {"poll", "pollfail"} =>
             /\ clock >= next_check_at
             /\ polled_at' = <<clock>>
             /\ polled_at # <<>> => clock - polled_at[1] >= CHECK_INTERVAL - 5]_vars

C17_Witness ==
    /\ ev.kind = "pollfail"
    /\ ticks = 3
    /\ now = StartTime + 2 * CHECK_INTERVAL
    /\ next_check_at = now + CHECK_INTERVAL - 5

\* The record of the target that the last step of the for loop processed.
Processed == statuses[idx - 1]

\* C18: a dispatch sends the header "/w " + name + code, then the
\* timestamp, then records the send time, then calls the verifier with the
\* code and with the timestamp string it has just sent; no other step of
\* the loop calls the verifier, and no call of it comes before the two sends.
C18_DispatchOrder ==
    /\ ev.kind = "dispatch" =>
          /\ Len(ev.ops) = 4
          /\ ev.ops[1].op = "send"
          /\ ev.ops[1].a = <<"/", "w", " ">> \o OrEmpty(Processed.info.name)
                                           \o OrEmpty(Processed.info.code)
          /\ ev.ops[2].op = "send"
          /\ ev.ops[2].a = ev.line2
          /\ ev.ops[3].op = "record"
          /\ last_sent[ev.key] = now
          /\ ev.ops[4].op = "verify"
          /\ ev.ops[4].a = OrEmpty(Processed.info.code)
          /\ ev.ops[4].b = ev.ops[2].a
    /\ \A i \in 1..Len(ev.ops) :
          ev.ops[i].op = "verify" =>
              /\ ev.kind = "dispatch"
              /\ Cardinality({j \in 1..(i - 1) : ev.ops[j].op = "send"}) = 2

C18_Witness ==
    /\ ev.kind = "dispatch"
    /\ ev.url = targets[1]
    /\ Processed.info.name # None
    /\ Processed.info.code # None
    /\ ev.line2 = <<"1", "2", "3", "1", "2", "3", "5", "9", "5", "8">>
    /\ ev.ops[1].a = <<"/", "w", " ", "A", "n", "n", "#", "A", "B", "C", "D", "E">>
    /\ ev.ops[4] = [op |-> "verify", a |-> <<"#", "A", "B", "C", "D", "E">>,
                    b |-> <<"1", "2", "3", "1", "2", "3", "5", "9", "5", "8">>]

\* C19: last_channel changes only in a dispatch whose verification
\* succeeded, and then the account's entry becomes the channel the
\* verifier returned; a dispatch whose verification failed or raised, a
\* throttled record, an offline record, a poll and a sleep leave it as it is.
C19_ChannelOnlyByVerifiedDispatch ==
    /\ []((ev.kind = "dispatch" /\ ev.ver # None /\ ev.ver[1] = TRUE)
             => (ev.key \in DOMAIN last_channel /\ last_channel[ev.key] = ev.ver[2]))
    /\ [][last_channel' # last_channel =>
             /\ ev'.kind = "dispatch"
             /\ ev'.ver # None
             /\ ev'.ver[1] = TRUE
             /\ last_channel' = DictSet(last_channel, ev'.key, ev'.ver[2])]_vars

C19_Witness ==
    /\ ev.kind = "dispatch"
    /\ ev.ver # None
    /\ ev.ver[1] = FALSE
    /\ ev.prev = "sent"
    /\ last_channel = <<>>

(***************************************************************************)
(* Properties of check_multiple_status (specification SpecScrape).         *)
(***************************************************************************)
\* The record the caller must hold for a url whose worker has ended.
RecordOf(u) == IF fut[u].raised THEN DefaultRecord ELSE fut[u].rec

\* C14: the returned map has exactly one record for every requested
\* target; the record of a target whose worker raised is the degraded
\* record, the record of every other target is the one its worker
\* returned, whatever the order in which the workers ended; at no point of
\* the collection is a record of another target dropped or altered.
C14_OneRecordPerTarget ==
    /\ \A i \in 1..Len(results) :
          /\ fut[results[i].url].st = "finished"
          /\ results[i].info = RecordOf(results[i].url)
    /\ \A u \in taken : Cardinality({i \in 1..Len(results) : results[i].url = u}) = 1
    /\ s_pc \in {"returned", "device"} =>
          \A u \in Urls : Cardinality({i \in 1..Len(results) : results[i].url = u}) = 1

C14_Witness ==
    /\ s_pc = "returned"
    /\ fut[targets[1]].raised
    /\ ~fut[targets[2]].raised /\ fut[targets[2]].rec.online
    /\ Len(results) = 2
    /\ results[1].url = targets[2]
    /\ results[1].info.online
    /\ results[2] = [url |-> targets[1], info |-> DefaultRecord]

\* C20: the first send of a tick begins only after check_multiple_status
\* has returned, and by then every worker of the poll has ended: no device
\* action runs while a scrape worker runs.  The sends and the captures are
\* calls of the loop's own thread (the steps of one Dispatch).
C20_NoDeviceActionWhileScraping ==
    /\ s_pc = "device" => \A u \in Urls : fut[u].st = "finished"
    /\ s_pc \in {"returned", "device"} => taken = Urls
    /\ (\E u \in Urls : fut[u].st = "running") => s_pc \in {"submit", "collect"}

C20_Witness ==
    /\ s_pc = "device"
    /\ \A u \in Urls : fut[u].st = "finished"
    /\ fut[targets[2]].rec.online
    /\ fut[targets[1]].raised

(***************************************************************************)
(* Properties of the crop (specification SpecCrop).                        *)
(***************************************************************************)
\* C21: for every frame of height h >= 1 and width w >= 1 the bounds of the
\* crop satisfy 0 <= y1 <= y2 <= h and 0 <= x1 <= x2 <= w; and a clamped
\* region that is empty gives the full frame.
C21_CropInsideFrame ==
    c_out # <<>> =>
        LET r == c_out[1] IN
        /\ c_h >= 1 /\ c_w >= 1
        /\ 0 <= r.y1 /\ r.y1 <= r.y2 /\ r.y2 <= c_h
        /\ 0 <= r.x1 /\ r.x1 <= r.x2 /\ r.x2 <= c_w
        /\ (r.y2 <= r.y1 \/ r.x2 <= r.x1) => r.full

C21_Witness ==
    /\ c_h = ROI_Y1 + 1
    /\ c_w = 2
    /\ c_out = << [y1 |-> ROI_Y1, y2 |-> ROI_Y1 + 1, x1 |-> 1, x2 |-> 2,
                   full |-> FALSE] >>

(***************************************************************************)
(* Properties of send_message (specification SpecSend).                    *)
(***************************************************************************)
\* Every command of the send ended well.
SendSucceeded == \A i \in 1..Len(m_steps) : m_steps[i] = "ok"

\* C22: the boolean that send_message returns tells whether the message was
\* sent: it is True exactly when the tap, the clipboard set, the paste and
\* the send tap all succeeded.
C22_ResultTellsSuccess ==
    m_pc = "done" => (m_ret = <<TRUE>> <=> SendSucceeded)

\* C23: for a cropped frame without a pixel in the target band, the
\* binarized image at the end of the preprocessing has no foreground pixel.
NoPixelInBand == \A q \in Pos : ~InRange(HSV(f_frame[q]))
C23_NoBandNoForeground ==
    (f_pc = "done" /\ NoPixelInBand) => \A q \in Pos : f_img[q] = 0

\* C24: find_channel_for_code returns found = True only when the text of
\* the attempt it returns from parsed to a code equal to `code` and to a
\* timestamp equal to `expected_ts`, and then the channel it returns is the
\* channel of that parse; when it returns found = False the channel is
\* None.  This for every argument, an empty code and no expected_ts too.
C24_FoundMeansMatch ==
    /\ (vpc = "done" /\ v_ret[1] = TRUE)
          => LET m == Search(Normalize(v_raw)) IN
             /\ m.found
             /\ <<"#">> \o m.code = v_code
             /\ m.ts = v_ts
             /\ v_ret[2] = m.channel
             /\ v_ret[2] # None
    /\ (vpc = "done" /\ v_ret[1] = FALSE) => v_ret[2] = None

\* The text holds, after any prefix, the marker, five code characters, a
\* filler, one or more digits, one character, the anchor and eight digits.
ConfirmationAfterPrefix(q) ==
    /\ q.marker = <<"#">>
    /\ Len(q.body) = CODE_CHARS
    /\ q.chan # <<>>
    /\ Len(q.skip) = 1
    /\ q.anchor = <<"<", "<">>
    /\ Len(q.stamp) = TS_DIGITS

\* C25: when the text holds a well-formed confirmation whose code is the
\* expected code and whose timestamp is the expected timestamp, the parser
\* reports matched = True with the channel of that confirmation, whatever
\* text stands before it (an earlier marker, earlier digit runs).
C25_ConfirmationFoundAfterAnyPrefix ==
    (/\ p_out # None
     /\ ConfirmationAfterPrefix(p_parts)
     /\ SingleConfirmation(p_parts)
     /\ ExpectedAsWritten(p_parts))
        => (p_out[1] = TRUE /\ p_out[2] = WholeRun(p_parts))

\* What the offline branch does for an account whose own timer is `own`
\* (<<>> when it has none) at tick time t, if nothing but the account's own
\* state decides it.
OwnNotify(own, t) ==
    OfflineNotify(IF own = <<>> THEN <<LastSentDefault>> ELSE own, t)

\* C26: what the loop does for one account in a tick is decided by the
\* account's own status record, its own last dispatch time and the tick
\* time: an online account is dispatched to exactly when its own timer is
\* due; an offline account loses its timer, and its offline notification
\* is the one its own timer and the tick time give, whatever the accounts
\* processed before it left behind.
C26_OwnStateDecides ==
    /\ ev.kind = "dispatch" => DispatchDue(now, ev.own[1])
    /\ ev.kind = "throttled" => ~DispatchDue(now, ev.own[1])
    /\ ev.kind = "offline" =>
          /\ ev.key \notin DOMAIN last_sent
          /\ ev.notify = OwnNotify(ev.own, now)

====
